---- MODULE Spec2Model ----
(***************************************************************************)
(* Model of cloudflare-ufw-sync: the reconciliation of the UFW rule table  *)
(* with the Cloudflare IP ranges (cloudflare_ufw_sync/ufw.py,              *)
(* cloudflare_ufw_sync/cloudflare.py).                                     *)
(*                                                                         *)
(* Texts (ranges, status lines, comments) are strings and the tests of the *)
(* code on them (substring tests, the regular expressions) are computed on *)
(* the characters.  Every external ufw command is one step and returns     *)
(* success or failure.                                                     *)
(***************************************************************************)
EXTENDS Integers, Sequences, FiniteSets, TLC

VARIABLES
  rules,           \* the rule table of the firewall: sequence of rules, rule number = position
  desired,         \* ip_ranges passed to sync_rules: family -> set of range texts
  pc,              \* position of the cycle
  existing_rules,  \* local of sync_rules: the state read at the start of the cycle
  addTodo,         \* (family, range) pairs the add loop has not visited yet
  remTodo,         \* (family, range) pairs the remove loop has not visited yet
  target,          \* ip_range argument of the delete_rule call in progress
  rule_number,     \* local of delete_rule: rule number found by the lookup, 0 = None
  added,           \* local of sync_rules
  removed,         \* local of sync_rules
  result,          \* at Done: the value sync_rules returned, <<added, removed>>
  log,             \* the external commands issued by the current cycle, in order
  cycle,           \* number of the current cycle
  prevClean,       \* the previous cycle completed with every command succeeding
  arg_ip_types,    \* argument of get_ip_ranges: the families requested
  data,            \* local of get_ip_ranges: data["result"] of the response
  output,          \* local of get_existing_rules: the lines of the status text
  mode,            \* the command that runs: "sync" (handle_sync) or "daemon"
  spc,             \* position of handle_sync / handle_daemon, run_daemon and sync()
  installed,       \* the ufw binary is on the host
  active,          \* the firewall is enabled
  incoming,        \* the default policy of ufw for incoming connections
  default_policy,  \* config value ufw.default_policy, "" when not configured
  slog,            \* what sync() did outside sync_rules: commands and returns
  sleep_secs,      \* argument of the time.sleep in progress, 0 when none is
  outcome,         \* how the handler ended: "running" until it has
  sync_result      \* local result of sync(): the dict it returns

vars == <<rules, desired, pc, existing_rules, addTodo, remTodo, target,
          rule_number, added, removed, result, log, cycle, prevClean,
          arg_ip_types, data, output, mode, spc, installed, active, incoming,
          default_policy, slog, sleep_secs, outcome, sync_result>>

\* The variables outside sync_rules: those of a call of get_ip_ranges or
\* get_existing_rules on its own, and those of the service around the cycle.
\* A cycle of sync_rules is given its desired state and leaves them alone.
callVars == <<arg_ip_types, data, output, mode, spc, installed, active,
              incoming, default_policy, slog, sleep_secs, outcome,
              sync_result>>

\* sync() has not built its result.
NoResult == [status |-> ""]

\* No service runs: sync_rules, get_ip_ranges or get_existing_rules is
\* looked at on its own.
NoService ==
  /\ mode = ""
  /\ spc = ""
  /\ installed = TRUE
  /\ active = TRUE
  /\ incoming = "deny"
  /\ default_policy = ""
  /\ slog = <<>>
  /\ sleep_secs = 0
  /\ outcome = ""
  /\ sync_result = NoResult

-----------------------------------------------------------------------------
(* Bounds *)

MaxCycles == 2     \* cycles per behaviour
MaxRules == 2      \* rules in the table at the start

-----------------------------------------------------------------------------
(* Configuration: UFWManager.__init__ defaults *)

port == "443"
proto == "tcp"
comment == "Cloudflare IP"

-----------------------------------------------------------------------------
(* Texts *)

\* Python's `t in s` on strings: t occurs in s as a contiguous substring.
Contains(t, s) ==
  \E i \in 1..(Len(s) - Len(t) + 1) : SubSeq(s, i, i + Len(t) - 1) = t

IsSpace(c) == c = " "

IsDigit(c) == c \in {"0", "1", "2", "3", "4", "5", "6", "7", "8", "9"}

\* The maximal runs of non-whitespace characters of s from position i on,
\* cur being the run in progress: what \S+ can match between \s+.
RECURSIVE TokensFrom(_, _, _)
TokensFrom(s, i, cur) ==
  IF i > Len(s)
  THEN IF cur = "" THEN <<>> ELSE <<cur>>
  ELSE LET c == SubSeq(s, i, i)
       IN IF IsSpace(c)
          THEN (IF cur = "" THEN <<>> ELSE <<cur>>) \o TokensFrom(s, i + 1, "")
          ELSE TokensFrom(s, i + 1, cur \o c)

Tokens(s) == TokensFrom(s, 1, "")

EndsWith(s, t) == Len(s) >= Len(t) /\ SubSeq(s, Len(s) - Len(t) + 1, Len(s)) = t

\* re.search(r"ALLOW\s+IN\s+(\S+)\s+from\s+(\S+)", line): the groups of the
\* first match, <<proto_port, ip_range>>, or <<>> when nothing matches.
\* ALLOW may end a longer word; IN, the two groups and "from" are whole words.
re_search_allow(line) ==
  LET t == Tokens(line)
      hits == {i \in 1..(Len(t) - 4) :
                 /\ EndsWith(t[i], "ALLOW")
                 /\ t[i + 1] = "IN"
                 /\ t[i + 3] = "from"}
  IN IF hits = {} THEN <<>>
     ELSE LET i == CHOOSE j \in hits : \A k \in hits : j <= k
          IN <<t[i + 2], t[i + 4]>>

DigitText == <<"1", "2", "3", "4", "5", "6", "7", "8", "9">>

\* The number a decimal text of one digit denotes (rule numbers of the model
\* stay below 10); 0 for "0".
DigitValue(c) ==
  IF \E d \in 1..9 : DigitText[d] = c
  THEN CHOOSE d \in 1..9 : DigitText[d] = c
  ELSE 0

RECURSIVE SkipSpaces(_, _)
SkipSpaces(s, i) ==
  IF i <= Len(s) /\ IsSpace(SubSeq(s, i, i)) THEN SkipSpaces(s, i + 1) ELSE i

RECURSIVE DigitsEnd(_, _)
DigitsEnd(s, i) ==
  IF i <= Len(s) /\ IsDigit(SubSeq(s, i, i)) THEN DigitsEnd(s, i + 1) ELSE i

RECURSIVE DecimalValue(_, _, _)
DecimalValue(s, i, j) ==
  IF i >= j THEN 0
  ELSE 10 * DecimalValue(s, i, j - 1) + DigitValue(SubSeq(s, j - 1, j - 1))

\* re.match(r"\[\s*(\d+)\]", line): the number in the bracket the line starts
\* with, 0 when the line does not start with one (None).
re_match_number(line) ==
  IF Len(line) = 0 \/ SubSeq(line, 1, 1) # "[" THEN 0
  ELSE LET i == SkipSpaces(line, 2)
           j == DigitsEnd(line, i)
       IN IF j > i /\ j <= Len(line) /\ SubSeq(line, j, j) = "]"
          THEN DecimalValue(line, i, j)
          ELSE 0

-----------------------------------------------------------------------------
(* The ipaddress library on the texts of the model *)

\* The texts that denote a network: the IP version, whether host bits are
\* set, and the text of the network with the host bits cleared.
NetworkTexts ==
  [t \in {"10.0.0.0/8", "10.0.0.1/8", "110.0.0.0/8", "2001:db8::/32"} |->
     CASE t = "10.0.0.0/8"    -> [version |-> 4, hostbits |-> FALSE, network |-> "10.0.0.0/8"]
       [] t = "10.0.0.1/8"    -> [version |-> 4, hostbits |-> TRUE,  network |-> "10.0.0.0/8"]
       [] t = "110.0.0.0/8"   -> [version |-> 4, hostbits |-> FALSE, network |-> "110.0.0.0/8"]
       [] t = "2001:db8::/32" -> [version |-> 6, hostbits |-> FALSE, network |-> "2001:db8::/32"]]

\* ipaddress.ip_network(text, strict): version 0 stands for ValueError, raised
\* for a text that is no network and, when strict, for one with host bits set.
ip_network(text, strict) ==
  IF text \notin DOMAIN NetworkTexts
  THEN [version |-> 0, network |-> ""]
  ELSE LET n == NetworkTexts[text]
       IN IF strict /\ n.hostbits
          THEN [version |-> 0, network |-> ""]
          ELSE [version |-> n.version, network |-> n.network]

-----------------------------------------------------------------------------
(* The firewall tool: its rule table and the text of `ufw status numbered` *)

\* One line of `ufw status numbered` for rule i, in the layout the parser is
\* written and tested for:
\*   [ 1] 203.0.113.0/24  ALLOW IN  tcp/443  from 203.0.113.0/24  # Cloudflare IP
status_line(i, rule) ==
  "[ " \o DigitText[i] \o "] " \o rule.src \o "  ALLOW IN  " \o rule.pp
    \o "  from " \o rule.src
    \o (IF rule.tag = "" THEN "" ELSE "  # " \o rule.tag)

\* output.splitlines() of a successful `ufw status numbered`
status_numbered(table) == [i \in 1..Len(table) |-> status_line(i, table[i])]

-----------------------------------------------------------------------------
(* UFWManager *)

EmptyRules == [f \in {"v4", "v6"} |-> {}]

\* Faulty variant: the comment of the line is not looked at.
has_comment_any(line) == TRUE

\* if self.comment not in line: continue
has_comment(line) == Contains(comment, line)

\* if f"{self.proto}/{self.port}" not in proto_port: continue
port_matches(proto_port) == Contains(proto \o "/" \o port, proto_port)

\* get_existing_rules, the loop over the lines of the status output: the
\* ranges of the first n lines, by family.
RECURSIVE parse_lines(_, _)
parse_lines(lines, n) ==
  IF n = 0 THEN EmptyRules
  ELSE LET ip_ranges == parse_lines(lines, n - 1)
           line == lines[n]
           ip_match == re_search_allow(line)
       IN IF ~has_comment(line) THEN ip_ranges
          ELSE IF ip_match = <<>> THEN ip_ranges
          ELSE LET proto_port == ip_match[1]
                   ip_range == ip_match[2]
                   ip_obj == ip_network(ip_range, TRUE)
               IN IF ~port_matches(proto_port) THEN ip_ranges
                  ELSE IF ip_obj.version = 0 THEN ip_ranges
                  ELSE LET ip_type == IF ip_obj.version = 6 THEN "v6" ELSE "v4"
                       IN [ip_ranges EXCEPT ![ip_type] = @ \cup {ip_range}]

\* Faulty variant: a failed query leaves the state read by the cycle before.
get_existing_rules_stale(success, table) ==
  IF ~success THEN existing_rules
  ELSE LET lines == status_numbered(table) IN parse_lines(lines, Len(lines))

\* get_existing_rules on what the status command returned: success, and the
\* lines of its output.
parse_output(success, lines) ==
  IF ~success THEN EmptyRules ELSE parse_lines(lines, Len(lines))

\* Faulty variant: the state read by the first cycle is kept for the cycles
\* after it.
get_existing_rules_cached(success, table) ==
  IF cycle > 1 THEN existing_rules
  ELSE parse_output(success, status_numbered(table))

\* get_existing_rules: what it returns when the status command returned
\* (success, the text of table).
get_existing_rules(success, table) ==
  parse_output(success, status_numbered(table))

\* Faulty variant: the first numbered line is taken, whatever it holds.
find_rule_number_any(lines, ip_range) ==
  LET hits == {i \in 1..Len(lines) : re_match_number(lines[i]) # 0}
  IN IF hits = {} THEN 0
     ELSE re_match_number(lines[CHOOSE i \in hits : \A k \in hits : i <= k])

\* Faulty variant: the number the rule had before the deletes of this cycle,
\* as a list of numbers read once before the remove loop would give it.
find_rule_number_before_deletes(lines, ip_range) ==
  LET hits == {i \in 1..Len(lines) :
                 /\ Contains(ip_range, lines[i])
                 /\ Contains(comment, lines[i])
                 /\ re_match_number(lines[i]) # 0}
      deleted == Cardinality({k \in 1..Len(log) :
                                log[k].cmd = "delete" /\ log[k].ok})
  IN IF hits = {} THEN 0
     ELSE re_match_number(lines[CHOOSE i \in hits : \A k \in hits : i <= k])
            + deleted

\* delete_rule, the hunt for the rule number: the number of the first line
\* that contains ip_range and the comment and starts with a bracketed
\* number; 0 (None) when there is none.
find_rule_number(lines, ip_range) ==
  LET hits == {i \in 1..Len(lines) :
                 /\ Contains(ip_range, lines[i])
                 /\ Contains(comment, lines[i])
                 /\ re_match_number(lines[i]) # 0}
  IN IF hits = {} THEN 0
     ELSE re_match_number(lines[CHOOSE i \in hits : \A k \in hits : i <= k])

-----------------------------------------------------------------------------
(* CloudflareClient *)

\* Faulty variant: the version of the network is not compared.
validated_any_family(candidates, version) ==
  {ip_range \in candidates : ip_network(ip_range, FALSE).version # 0}

\* Faulty variant: a candidate that does not parse ends the loop with
\* nothing kept.
validated_abort(candidates, version) ==
  IF \E ip_range \in candidates : ip_network(ip_range, FALSE).version = 0
  THEN {}
  ELSE {ip_range \in candidates : ip_network(ip_range, FALSE).version = version}

\* get_ip_ranges, one validation loop: the candidates that parse (strict=False)
\* as a network of the version, each kept as the text that was received.
validated(candidates, version) ==
  {ip_range \in candidates : ip_network(ip_range, FALSE).version = version}

\* How a GET of the upstream can end: a response with success true, a
\* response with success false, or a failed request.
Upstream == {"ok", "success_false", "http_error"}

\* Faulty variant: the success flag of the response is not looked at.
upstream_outcome_unchecked(kind) ==
  IF kind = "http_error" THEN "raise RequestException" ELSE "return"

\* get_ip_ranges, how it ends: raise_for_status raises the request error,
\* which is raised again; a response without success true raises
\* RuntimeError; otherwise the map is returned.
upstream_outcome(kind) ==
  IF kind = "http_error" THEN "raise RequestException"
  ELSE IF kind = "success_false" THEN "raise RuntimeError"
  ELSE "return"

\* Faulty variant: a family is extracted whether it was asked for or not.
requested_any(f, ip_types) == TRUE

\* if "v4" in ip_types / if "v6" in ip_types
requested(f, ip_types) == f \in ip_types

\* get_ip_ranges on a response with success=true: res is data["result"], a
\* map from "ipv4_cidrs" / "ipv6_cidrs" (each may be missing) to candidates.
get_ip_ranges(ip_types, res) ==
  LET keys == {f \in {"v4", "v6"} :
                 /\ requested(f, ip_types)
                 /\ (IF f = "v4" THEN "ipv4_cidrs" ELSE "ipv6_cidrs") \in DOMAIN res}
  IN [f \in keys |->
        IF f = "v4" THEN validated(res["ipv4_cidrs"], 4)
                    ELSE validated(res["ipv6_cidrs"], 6)]

\* dict.get(ip_type, set())
dict_get(d, k) == IF k \in DOMAIN d THEN d[k] ELSE {}

\* The items a `for ip_type, ranges in d.items(): for ip_range in ranges`
\* visits, as <<family, range>> pairs.
Items(d) == UNION {{<<f, r>> : r \in d[f]} : f \in DOMAIN d}

\* The items of todo the loop can visit next: dicts keep insertion order,
\* "v4" before "v6" in both maps; the order inside a set is any.
NextItems(todo) ==
  {p \in todo : p[1] = "v4" \/ \A q \in todo : q[1] # "v4"}

-----------------------------------------------------------------------------
(* The inputs *)

CandidateTexts == {"10.0.0.0/8", "10.0.0.1/8", "110.0.0.0/8", "2001:db8::/32", "not-an-ip"}

\* data["result"] of the upstream response
Responses ==
  UNION {[ks -> SUBSET CandidateTexts] : ks \in SUBSET {"ipv4_cidrs", "ipv6_cidrs"}}

IpTypes == {{"v4", "v6"}, {"v4"}, {"v6"}}

Rule(pp, src, tag) == [pp |-> pp, src |-> src, tag |-> tag]

\* The rules a table can hold at the start: rules of this tool for the
\* configured port, one it wrote for another port, and one of another owner.
RuleUniverse ==
  { Rule("tcp/443", "10.0.0.0/8", comment),
    Rule("tcp/443", "110.0.0.0/8", comment),
    Rule("tcp/443", "2001:db8::/32", comment),
    Rule("tcp/80", "10.0.0.0/8", comment),
    Rule("tcp/443", "110.0.0.0/8", "") }

\* ufw keeps one rule per port and source.
NoDuplicates(table) ==
  \A i, j \in 1..Len(table) :
     (table[i].pp = table[j].pp /\ table[i].src = table[j].src) => i = j

Tables(n) ==
  {t \in UNION {[1..k -> RuleUniverse] : k \in 0..n} : NoDuplicates(t)}

-----------------------------------------------------------------------------
(* The firewall tool: the effect of its commands *)

\* The source text ufw stores for a range: as given, or with the host bits
\* cleared (the tool normalizes; the code does not depend on either).
StoredTexts(ip_range) == {ip_range, ip_network(ip_range, FALSE).network} \ {""}

\* `ufw allow proto <proto> from <src> to any port <port> comment <comment>`
\* that succeeds: a rule for the same port and source is kept (its comment
\* set), otherwise the rule is appended.
ufw_allow(table, src) ==
  LET pp == proto \o "/" \o port
  IN IF \E i \in 1..Len(table) : table[i].pp = pp /\ table[i].src = src
     THEN [i \in 1..Len(table) |->
             IF table[i].pp = pp /\ table[i].src = src
             THEN [table[i] EXCEPT !.tag = comment] ELSE table[i]]
     ELSE Append(table, Rule(pp, src, comment))

\* `ufw delete <n>` that succeeds: rule n goes and the later rules move up.
ufw_delete(table, n) ==
  [i \in 1..(Len(table) - 1) |-> IF i < n THEN table[i] ELSE table[i + 1]]

-----------------------------------------------------------------------------
(* One cycle of UFWManager.sync_rules, one step per external command *)

\* A log entry: the command, the family and range it is issued for (the rule
\* number for a delete) and whether it returned success.  "status" is the
\* query of get_existing_rules, "lookup" the query of delete_rule.
Cmd(cmd, fam, arg, ok) == [cmd |-> cmd, fam |-> fam, arg |-> arg, ok |-> ok]

\* The two loops of sync_rules, in the order they are written.
\* Faulty variant: the remove loop written before the add loop.
LoopOrder_removals_first == <<"Removing", "Adding">>

LoopOrder == <<"Adding", "Removing">>

\* Faulty variant: every desired range is added again.
needs_add_always(p) == TRUE

\* if ip_range not in existing_rules[ip_type]
needs_add(p) == p[2] \notin existing_rules[p[1]]

\* Faulty variant: a family that is no key of the desired map is left alone.
needs_remove_keyed(p) == p[1] \in DOMAIN desired /\ p[2] \notin desired[p[1]]

\* Faulty variant: every existing range is removed.
needs_remove_always(p) == TRUE

\* if ip_range not in ip_ranges.get(ip_type, set())
needs_remove(p) == p[2] \notin dict_get(desired, p[1])

\* Faulty variant: a failed command ends the loop.
rest_after_break(todo, p, ok) == IF ok THEN todo \ {p} ELSE {}

\* What a loop still has to visit after its pass over p, ok telling whether
\* the command of the pass succeeded: the loops have no break and no retry.
rest_after(todo, p, ok) == todo \ {p}

\* Faulty variant: a failed query ends the cycle with an error.
after_fetch_raise(ok) == IF ok THEN LoopOrder[1] ELSE "Failed"

\* Where sync_rules goes on when get_existing_rules has returned: it returns
\* for a failed query too, and the first loop starts.
after_fetch(ok) == LoopOrder[1]

\* Faulty variant: attempts are counted, not successes.
counted_attempts(n, ok) == n + 1

\* if self.add_rule(ip_range): added += 1, and the same for removed
counted(n, ok) == IF ok THEN n + 1 ELSE n

\* Faulty variant: a lookup that finds no rule number is a removal that
\* succeeded without doing anything.
delete_rule_early_noop_success(success) == success

\* What delete_rule returns when it issues no delete command, success telling
\* whether its status query succeeded: False for a failed query, and False
\* for a lookup that found no rule number.
delete_rule_early(success) == FALSE

Init ==
  /\ rules \in Tables(MaxRules)
  /\ desired \in {get_ip_ranges(t, res) : t \in IpTypes, res \in Responses}
  /\ pc = "Idle"
  /\ existing_rules = EmptyRules
  /\ addTodo = {}
  /\ remTodo = {}
  /\ target = ""
  /\ rule_number = 0
  /\ added = 0
  /\ removed = 0
  /\ result = <<0, 0>>
  /\ log = <<>>
  /\ cycle = 0
  /\ prevClean = FALSE
  /\ arg_ip_types = {}
  /\ data = <<>>
  /\ output = <<>>
  /\ NoService

\* sync_rules is called with the desired state.
sync_rules_call ==
  /\ UNCHANGED callVars
  /\ pc \in {"Idle", "Done"}
  /\ cycle < MaxCycles
  /\ pc' = "FetchingCurrent"
  /\ cycle' = cycle + 1
  /\ log' = <<>>
  /\ result' = <<0, 0>>
  /\ UNCHANGED <<rules, desired, existing_rules, addTodo, remTodo, target,
                 rule_number, added, removed, prevClean>>

\* existing_rules = self.get_existing_rules(); added = 0; removed = 0
sync_rules_fetch ==
  /\ UNCHANGED callVars
  /\ pc = "FetchingCurrent"
  /\ \E ok \in BOOLEAN :
       /\ existing_rules' = get_existing_rules(ok, rules)
       /\ log' = Append(log, Cmd("status", "", "", ok))
       /\ pc' = after_fetch(ok)
  /\ added' = 0
  /\ removed' = 0
  /\ addTodo' = Items(desired)
  /\ remTodo' = Items(existing_rules')
  /\ UNCHANGED <<rules, desired, target, rule_number, result, cycle, prevClean>>

\* One pass of the add loop: a range that is not in existing_rules is added
\* with add_rule, which issues one allow command and returns its success.
sync_rules_add ==
  /\ UNCHANGED callVars
  /\ pc = "Adding"
  /\ \E p \in NextItems(addTodo) :
       IF needs_add(p)
       THEN \E ok \in BOOLEAN :
              /\ log' = Append(log, Cmd("allow", p[1], p[2], ok))
              /\ added' = counted(added, ok)
              /\ addTodo' = rest_after(addTodo, p, ok)
              /\ IF ok
                 THEN \E src \in StoredTexts(p[2]) : rules' = ufw_allow(rules, src)
                 ELSE rules' = rules
       ELSE /\ addTodo' = addTodo \ {p}
            /\ UNCHANGED <<log, added, rules>>
  /\ UNCHANGED <<desired, pc, existing_rules, remTodo, target, rule_number,
                 removed, result, cycle, prevClean>>

\* Faulty variant: the delete command is issued whatever the hunt found.
after_lookup_always(n) == "Deleting"

\* delete_rule: if not rule_number: return False, before the delete command.
after_lookup(n) == IF n # 0 THEN "Deleting" ELSE "Removing"

\* One pass of the remove loop: for a range that is not in the desired state
\* delete_rule is called; it queries the status and hunts for the rule number.
\* It returns False when the query fails or finds no number.
sync_rules_remove ==
  /\ UNCHANGED callVars
  /\ pc = "Removing"
  /\ \E p \in NextItems(remTodo) :
       IF needs_remove(p)
       THEN \E ok \in BOOLEAN :
              LET n == IF ok THEN find_rule_number(status_numbered(rules), p[2])
                             ELSE 0
              IN /\ log' = Append(log, Cmd("lookup", p[1], p[2], ok))
                 /\ rule_number' = n
                 /\ target' = IF n # 0 THEN p[2] ELSE ""
                 /\ pc' = after_lookup(n)
                 /\ remTodo' = rest_after(remTodo, p, n # 0)
                 /\ removed' = IF n # 0 THEN removed
                               ELSE counted(removed, delete_rule_early(ok))
       ELSE /\ remTodo' = remTodo \ {p}
            /\ UNCHANGED <<log, rule_number, target, pc, removed>>
  /\ UNCHANGED <<rules, desired, existing_rules, addTodo, added,
                 result, cycle, prevClean>>

\* delete_rule, after the hunt found a number: one delete command; the call
\* returns its success, which sync_rules counts.
delete_rule_delete ==
  /\ UNCHANGED callVars
  /\ pc = "Deleting"
  /\ \E ok \in BOOLEAN :
       /\ ok => rule_number \in 1..Len(rules)
       /\ log' = Append(log, Cmd("delete", "", rule_number, ok))
       /\ rules' = IF ok THEN ufw_delete(rules, rule_number) ELSE rules
       /\ removed' = counted(removed, ok)
  /\ pc' = "Removing"
  /\ target' = ""
  /\ rule_number' = 0
  /\ UNCHANGED <<desired, existing_rules, addTodo, remTodo, added, result,
                 cycle, prevClean>>

\* The first loop is over and the second starts.
sync_rules_next_loop ==
  /\ UNCHANGED callVars
  /\ pc = LoopOrder[1]
  /\ (IF pc = "Adding" THEN addTodo ELSE remTodo) = {}
  /\ pc' = LoopOrder[2]
  /\ UNCHANGED <<rules, desired, existing_rules, addTodo, remTodo, target,
                 rule_number, added, removed, result, log, cycle, prevClean>>

AllOk(l) == \A i \in 1..Len(l) : l[i].ok

\* The second loop is over: return added, removed
sync_rules_return ==
  /\ UNCHANGED callVars
  /\ pc = LoopOrder[2]
  /\ (IF pc = "Adding" THEN addTodo ELSE remTodo) = {}
  /\ pc' = "Done"
  /\ result' = <<added, removed>>
  /\ prevClean' = AllOk(log)
  /\ UNCHANGED <<rules, desired, existing_rules, addTodo, remTodo, target,
                 rule_number, added, removed, log, cycle>>

Next ==
  \/ sync_rules_call
  \/ sync_rules_fetch
  \/ sync_rules_add
  \/ sync_rules_remove
  \/ delete_rule_delete
  \/ sync_rules_next_loop
  \/ sync_rules_return

Spec == Init /\ [][Next]_vars

\* A cycle that has started runs to its return: every command returns and
\* the code between two commands does not block.
CycleStep ==
  \/ sync_rules_fetch
  \/ sync_rules_add
  \/ sync_rules_remove
  \/ delete_rule_delete
  \/ sync_rules_next_loop
  \/ sync_rules_return

FairSpec == Spec /\ WF_vars(CycleStep)

\* run_daemon calls sync() again, for as long as it runs: the cycles after
\* the ones that are counted.
sync_rules_again ==
  /\ UNCHANGED callVars
  /\ pc = "Done"
  /\ cycle = MaxCycles
  /\ pc' = "FetchingCurrent"
  /\ log' = <<>>
  /\ result' = <<0, 0>>
  /\ UNCHANGED <<rules, desired, existing_rules, addTodo, remTodo, target,
                 rule_number, added, removed, cycle, prevClean>>

\* The desired states of the daemon that runs on: what get_ip_ranges returns
\* for responses with a v4 list.
DaemonDesired ==
  {get_ip_ranges({"v4", "v6"}, res) :
     res \in [{"ipv4_cidrs"} -> SUBSET {"10.0.0.0/8", "10.0.0.1/8", "110.0.0.0/8"}]}

InitDaemon ==
  /\ Init
  /\ desired \in DaemonDesired

NextDaemon ==
  \/ Next
  \/ sync_rules_again

\* The daemon with a desired state that stays as it is, no other actor and
\* no interrupt: the sleep ends, every command returns, and cycle follows
\* cycle.
DaemonSpec == InitDaemon /\ [][NextDaemon]_vars /\ WF_vars(NextDaemon)

-----------------------------------------------------------------------------
(* get_existing_rules and get_ip_ranges on their own, on inputs of any kind *)

MaxLines == 2      \* lines of a status text

\* The rules a status text can show: a rule of this tool for the configured
\* port in each family, one for another port, one for a port whose text
\* holds the configured one, one of another owner, and two whose source is
\* not a network the strict parse accepts.
ParserRules ==
  { Rule("tcp/443", "10.0.0.0/8", comment),
    Rule("tcp/443", "2001:db8::/32", comment),
    Rule("tcp/80", "110.0.0.0/8", comment),
    Rule("tcp/4430", "110.0.0.0/8", comment),
    Rule("tcp/443", "110.0.0.0/8", ""),
    Rule("tcp/443", "10.0.0.1/8", comment),
    Rule("tcp/443", "not-an-ip", comment) }

\* Lines that show no rule: a header, a line without the expected words,
\* and one that ends with the comment.
GarbageLines ==
  { [line |-> "Status: active"],
    [line |-> "[ 1] nonsense without expected tokens"],
    [line |-> "[ 1] some other thing # Cloudflare IP"] }

\* The status texts: at each place the line of a rule or a garbage line.
StatusTexts(n) ==
  UNION {{[i \in 1..k |-> IF e[i] \in GarbageLines THEN e[i].line
                                                   ELSE status_line(i, e[i])] :
            e \in [1..k -> ParserRules \cup GarbageLines]} : k \in 0..n}

\* Before a call of get_existing_rules: the status command will return one
\* of the status texts, or fail.
InitParser ==
  /\ output \in StatusTexts(MaxLines)
  /\ pc = "get_existing_rules"
  /\ rules = <<>>
  /\ desired = <<>>
  /\ existing_rules = EmptyRules
  /\ addTodo = {}
  /\ remTodo = {}
  /\ target = ""
  /\ rule_number = 0
  /\ added = 0
  /\ removed = 0
  /\ result = <<0, 0>>
  /\ log = <<>>
  /\ cycle = 0
  /\ prevClean = FALSE
  /\ arg_ip_types = {}
  /\ data = <<>>
  /\ NoService

\* A call of get_existing_rules: the status command returns the text, or
\* fails, and the method returns.
get_existing_rules_call ==
  /\ pc = "get_existing_rules"
  /\ \E success \in BOOLEAN :
       /\ existing_rules' = parse_output(success, output)
       /\ log' = Append(log, Cmd("status", "", "", success))
  /\ pc' = "Returned"
  /\ UNCHANGED <<rules, desired, addTodo, remTodo, target, rule_number, added,
                 removed, result, cycle, prevClean, callVars>>

\* Before a call of get_ip_ranges(ip_types): the upstream will answer with
\* success and one of the responses.
InitValidate ==
  /\ arg_ip_types \in IpTypes
  /\ data \in Responses
  /\ pc = "get_ip_ranges"
  /\ output = <<>>
  /\ rules = <<>>
  /\ desired = <<>>
  /\ existing_rules = EmptyRules
  /\ addTodo = {}
  /\ remTodo = {}
  /\ target = ""
  /\ rule_number = 0
  /\ added = 0
  /\ removed = 0
  /\ result = <<0, 0>>
  /\ log = <<>>
  /\ cycle = 0
  /\ prevClean = FALSE
  /\ NoService

\* A call of get_ip_ranges: the request fails, or the response says success
\* false, and the call raises; or both lists are validated and the map is
\* returned.  data is the result the response carries, also when it says
\* success false.
get_ip_ranges_call ==
  /\ UNCHANGED sync_result
  /\ pc = "get_ip_ranges"
  /\ \E kind \in Upstream :
       /\ log' = Append(log, Cmd("get", "", kind, kind = "ok"))
       /\ outcome' = upstream_outcome(kind)
       /\ IF outcome' = "return"
          THEN /\ desired' = get_ip_ranges(arg_ip_types, data)
               /\ pc' = "Returned"
          ELSE /\ desired' = desired
               /\ pc' = "Raised"
  /\ UNCHANGED <<rules, existing_rules, addTodo, remTodo, target, rule_number,
                 added, removed, result, cycle, prevClean, arg_ip_types, data,
                 output, mode, spc, installed, active, incoming, default_policy,
                 slog, sleep_secs>>

InitCall == InitParser \/ InitValidate

NextCall ==
  \/ get_existing_rules_call
  \/ get_ip_ranges_call

CallSpec == InitCall /\ [][NextCall]_vars

-----------------------------------------------------------------------------
(* The cycle with other actors at the rule table *)

\* The table belongs to the firewall tool, not to this program: between two
\* commands of the program another actor deletes a rule or appends one.
out_of_band ==
  /\ UNCHANGED callVars
  /\ \/ \E n \in 1..Len(rules) : rules' = ufw_delete(rules, n)
     \/ /\ Len(rules) < MaxRules
        /\ \E r \in RuleUniverse :
             /\ NoDuplicates(Append(rules, r))
             /\ rules' = Append(rules, r)
  /\ UNCHANGED <<desired, pc, existing_rules, addTodo, remTodo, target,
                 rule_number, added, removed, result, log, cycle, prevClean>>

\* The desired states of the runs with other actors: what get_ip_ranges
\* returns for both families requested and lists of normalized texts.
OobDesired ==
  {get_ip_ranges({"v4", "v6"}, res) :
     res \in [{"ipv4_cidrs", "ipv6_cidrs"} -> SUBSET {"10.0.0.0/8", "110.0.0.0/8"}]}

InitOob ==
  /\ Init
  /\ desired \in OobDesired

NextOob ==
  \/ Next
  \/ out_of_band

SpecOob == InitOob /\ [][NextOob]_vars

-----------------------------------------------------------------------------
(* The service: handle_sync and handle_daemon around SyncService.sync *)

\* time.sleep(60) of run_daemon after a cycle that raised
backoff == 60

\* config value sync.interval, by default one day
interval == 86400

\* The tables the service starts with.
ServiceTables ==
  { <<>>,
    <<Rule("tcp/443", "10.0.0.0/8", comment)>>,
    <<Rule("tcp/443", "110.0.0.0/8", comment)>> }

\* data["result"] of the responses the upstream gives to the service.
ServiceResponses ==
  { [ipv4_cidrs |-> {"10.0.0.0/8"}, ipv6_cidrs |-> {"2001:db8::/32"}],
    [ipv4_cidrs |-> {"110.0.0.0/8", "not-an-ip"}] }

\* The first line of `ufw status verbose`.
status_verbose(enabled) ==
  IF enabled THEN "Status: active" ELSE "Status: inactive"

\* Faulty variant: a failed cycle is followed by the configured interval.
sleep_after_always_interval(raised) == interval

\* run_daemon: the sleep after a cycle, raised telling whether sync() raised.
sleep_after(raised) == IF raised THEN backoff ELSE interval

\* Faulty variant: an error in a cycle ends the daemon.
after_error_exit(m) == "exited"

\* Where the caller of sync() goes on when sync() raised an Exception:
\* handle_sync returns, run_daemon sleeps and tries again.
after_error(m) == IF m = "sync" THEN "exited" ELSE "sleep_backoff"

\* Faulty variant: the exit code tells whether every command succeeded.
handle_sync_exit_strict(raised) ==
  IF raised \/ ~AllOk(log) \/ ~AllOk(slog) THEN "return 1" ELSE "return 0"

\* handle_sync: return 0 after sync() returned, return 1 in the handler of
\* Exception.
handle_sync_exit(raised) == IF raised THEN "return 1" ELSE "return 0"

\* sync() raises an Exception to its caller.
sync_raises ==
  /\ spc' = after_error(mode)
  /\ outcome' = IF spc' = "exited" THEN handle_sync_exit(TRUE) ELSE outcome
  /\ sleep_secs' = IF spc' = "exited" THEN 0 ELSE sleep_after(TRUE)

InitService ==
  /\ mode \in {"sync", "daemon"}
  /\ spc = "construct"
  /\ installed \in BOOLEAN
  /\ active \in BOOLEAN
  /\ incoming = "allow"
  /\ default_policy \in {"", "allow", "deny", "reject", "drop"}
  /\ slog = <<>>
  /\ sleep_secs = 0
  /\ outcome = "running"
  /\ sync_result = NoResult
  /\ rules \in ServiceTables
  /\ arg_ip_types \in {{"v4", "v6"}, {"v4"}}
  /\ data = <<>>
  /\ output = <<>>
  /\ desired = <<>>
  /\ pc = "Idle"
  /\ existing_rules = EmptyRules
  /\ addTodo = {}
  /\ remTodo = {}
  /\ target = ""
  /\ rule_number = 0
  /\ added = 0
  /\ removed = 0
  /\ result = <<0, 0>>
  /\ log = <<>>
  /\ cycle = 0
  /\ prevClean = FALSE

\* The variables of the cycle and of the firewall, for the steps of the
\* service that leave them alone.
cycleVars == <<rules, pc, existing_rules, addTodo, remTodo, target,
               rule_number, added, removed, result, cycle, prevClean>>

\* SyncService(config): UFWManager.__init__ runs `which ufw` and raises
\* RuntimeError when it fails.  handle_daemon constructs inside its try and
\* returns 1; handle_sync constructs before its try.
SyncService_init ==
  /\ UNCHANGED sync_result
  /\ spc = "construct"
  /\ slog' = Append(slog, Cmd("which", "", "ufw", installed))
  /\ IF installed
     THEN /\ spc' = "sync"
          /\ outcome' = outcome
     ELSE /\ spc' = "exited"
          /\ outcome' = IF mode = "daemon" THEN "return 1"
                                           ELSE "raise RuntimeError"
  /\ UNCHANGED <<cycleVars, desired, log, arg_ip_types, data, output, mode,
                 installed, active, incoming, default_policy, sleep_secs>>

\* sync(), its first call: get_ip_ranges(ip_types).  A failed request and a
\* response with success false make it raise; otherwise it returns the
\* validated ranges.
sync_get_ip_ranges ==
  /\ sync_result' = NoResult
  /\ spc = "sync"
  /\ \E kind \in Upstream, res \in ServiceResponses :
       /\ slog' = <<Cmd("get", "", kind, kind = "ok")>>
       /\ IF upstream_outcome(kind) = "return"
          THEN /\ data' = res
               /\ desired' = get_ip_ranges(arg_ip_types, res)
               /\ spc' = "set_policy"
               /\ UNCHANGED <<outcome, sleep_secs>>
          ELSE /\ sync_raises
               /\ UNCHANGED <<data, desired>>
  /\ log' = <<>>
  /\ UNCHANGED <<cycleVars, arg_ip_types, output, mode, installed, active,
                 incoming, default_policy>>

\* Faulty variant: every policy is passed on to ufw.
valid_policy_any(policy) == TRUE

\* if policy not in ("allow", "deny", "reject"): return False
valid_policy(policy) == policy \in {"allow", "deny", "reject"}

\* Faulty variant: sync() raises when set_policy or ensure_enabled returns
\* False.
prerequisite_raises_strict(returned) == ~returned

\* sync() drops what set_policy and ensure_enabled return: a False does not
\* raise.
prerequisite_raises(returned) == FALSE

\* sync(): if default_policy: self.ufw.set_policy(default_policy).
\* set_policy returns False for a policy it does not know, else it runs
\* `ufw default <policy> incoming` and returns its success.  A command for a
\* binary that is gone raises FileNotFoundError.
sync_set_policy ==
  /\ UNCHANGED sync_result
  /\ spc = "set_policy"
  /\ IF default_policy = ""
     THEN /\ spc' = "ensure_enabled"
          /\ UNCHANGED <<slog, incoming, outcome, sleep_secs>>
     ELSE IF ~valid_policy(default_policy)
     THEN /\ slog' = Append(slog, Cmd("set_policy returns", "", default_policy, FALSE))
          /\ IF prerequisite_raises(FALSE)
             THEN sync_raises
             ELSE spc' = "ensure_enabled" /\ UNCHANGED <<outcome, sleep_secs>>
          /\ UNCHANGED incoming
     ELSE IF ~installed
     THEN /\ slog' = Append(slog, Cmd("raise", "", "FileNotFoundError", FALSE))
          /\ sync_raises
          /\ UNCHANGED incoming
     ELSE \E success \in BOOLEAN :
            /\ slog' = slog \o <<Cmd("default", "", default_policy, success),
                                  Cmd("set_policy returns", "", default_policy, success)>>
            /\ incoming' = IF success THEN default_policy ELSE incoming
            /\ IF prerequisite_raises(success)
               THEN sync_raises
               ELSE spc' = "ensure_enabled" /\ UNCHANGED <<outcome, sleep_secs>>
  /\ UNCHANGED <<cycleVars, desired, log, arg_ip_types, data, output, mode,
                 installed, active, default_policy>>

\* Faulty variant: the status is not looked at and ufw is enabled again.
reports_active_never(text) == FALSE

\* if "Status: active" in output
reports_active(text) == Contains("Status: active", text)

\* sync(): self.ufw.ensure_enabled(), its status query.  The output of a
\* failed query is the error text; with "Status: active" in the output
\* ensure_enabled returns True, else it goes on to enable ufw.
sync_ensure_enabled ==
  /\ UNCHANGED sync_result
  /\ spc = "ensure_enabled"
  /\ IF ~installed
     THEN /\ slog' = Append(slog, Cmd("raise", "", "FileNotFoundError", FALSE))
          /\ sync_raises
     ELSE \E success \in BOOLEAN :
            LET text == IF success THEN status_verbose(active) ELSE "ERROR: problem running"
            IN IF reports_active(text)
               THEN /\ slog' = slog \o <<Cmd("status verbose", "", text, success),
                                         Cmd("ensure_enabled returns", "", "", TRUE)>>
                    /\ spc' = "sync_rules"
                    /\ UNCHANGED <<outcome, sleep_secs>>
               ELSE /\ slog' = Append(slog, Cmd("status verbose", "", text, success))
                    /\ spc' = "enable"
                    /\ UNCHANGED <<outcome, sleep_secs>>
  /\ UNCHANGED <<cycleVars, desired, log, arg_ip_types, data, output, mode,
                 installed, active, incoming, default_policy>>

\* ensure_enabled, after a status that did not report ufw active:
\* `ufw --force enable`; it returns the success of the command, which sync()
\* ignores.
ensure_enabled_enable ==
  /\ UNCHANGED sync_result
  /\ spc = "enable"
  /\ \E success \in BOOLEAN :
       /\ slog' = slog \o <<Cmd("enable", "", "--force", success),
                             Cmd("ensure_enabled returns", "", "", success)>>
       /\ active' = (active \/ success)
       /\ IF prerequisite_raises(success)
          THEN sync_raises
          ELSE spc' = "sync_rules" /\ UNCHANGED <<outcome, sleep_secs>>
  /\ UNCHANGED <<cycleVars, desired, log, arg_ip_types, data, output, mode,
                 installed, incoming, default_policy>>

\* sync(): added, removed = self.ufw.sync_rules(cloudflare_ips), the call and
\* the steps of the cycle.
sync_sync_rules ==
  /\ spc = "sync_rules"
  /\ \/ pc = "Idle" /\ sync_rules_call
     \/ CycleStep

\* Faulty variant: the lists are counted as they were received.
ips_len_received(cloudflare_ips, ip_type) ==
  Cardinality(dict_get(data, IF ip_type = "v6" THEN "ipv6_cidrs" ELSE "ipv4_cidrs"))

\* len(cloudflare_ips.get("v4", set())), len(cloudflare_ips.get("v6", set()))
ips_len(cloudflare_ips, ip_type) == Cardinality(dict_get(cloudflare_ips, ip_type))

\* sync() returns its result.  handle_sync then returns 0; run_daemon sleeps
\* for the interval.
sync_return ==
  /\ sync_result' = [status |-> "success",
                     ips |-> [v4 |-> ips_len(desired, "v4"),
                              v6 |-> ips_len(desired, "v6")],
                     rules |-> [added |-> result[1], removed |-> result[2]]]
  /\ spc = "sync_rules"
  /\ pc = "Done"
  /\ pc' = "Idle"
  /\ IF mode = "sync"
     THEN /\ spc' = "exited"
          /\ outcome' = handle_sync_exit(FALSE)
          /\ sleep_secs' = 0
     ELSE /\ spc' = "sleep_interval"
          /\ outcome' = outcome
          /\ sleep_secs' = sleep_after(FALSE)
  /\ UNCHANGED <<rules, existing_rules, addTodo, remTodo, target, rule_number,
                 added, removed, result, cycle, prevClean, desired, log,
                 arg_ip_types, data, output, mode, installed, active, incoming,
                 default_policy, slog>>

\* run_daemon: the sleep is over and the loop calls sync() again.
run_daemon_wakes ==
  /\ UNCHANGED sync_result
  /\ spc \in {"sleep_interval", "sleep_backoff"}
  /\ cycle < MaxCycles
  /\ spc' = "sync"
  /\ sleep_secs' = 0
  /\ UNCHANGED <<cycleVars, desired, log, arg_ip_types, data, output, mode,
                 installed, active, incoming, default_policy, slog, outcome>>

\* KeyboardInterrupt in run_daemon.  Raised in the try block (sync() and the
\* interval sleep) it is caught, the loop breaks, run_daemon returns and
\* handle_daemon returns 0.  The backoff sleep is in the handler of
\* Exception, outside the try: raised there it leaves run_daemon, and
\* handle_daemon, which catches Exception only.
interrupt_outcome(position) ==
  IF position = "sleep_backoff" THEN "raise KeyboardInterrupt" ELSE "return 0"

\* The user interrupts the daemon.
interrupt ==
  /\ UNCHANGED sync_result
  /\ mode = "daemon"
  /\ spc \in {"sync", "set_policy", "ensure_enabled", "enable", "sync_rules",
               "sleep_interval", "sleep_backoff"}
  /\ outcome' = interrupt_outcome(spc)
  /\ spc' = "exited"
  /\ sleep_secs' = 0
  /\ UNCHANGED <<cycleVars, desired, log, arg_ip_types, data, output, mode,
                 installed, active, incoming, default_policy, slog>>

\* While the daemon sleeps the ufw binary is removed from the host or
\* installed on it.
tool_changes ==
  /\ UNCHANGED sync_result
  /\ spc \in {"sleep_interval", "sleep_backoff"}
  /\ installed' = ~installed
  /\ UNCHANGED <<cycleVars, desired, log, arg_ip_types, data, output, mode,
                 spc, active, incoming, default_policy, slog, sleep_secs,
                 outcome>>

NextService ==
  \/ SyncService_init
  \/ sync_get_ip_ranges
  \/ sync_set_policy
  \/ sync_ensure_enabled
  \/ ensure_enabled_enable
  \/ sync_sync_rules
  \/ sync_return
  \/ run_daemon_wakes
  \/ interrupt
  \/ tool_changes

ServiceSpec == InitService /\ [][NextService]_vars

-----------------------------------------------------------------------------
(* What the claims speak of *)

Entries(cmd) == {i \in 1..Len(log) : log[i].cmd = cmd}

\* How many times the cycle issued cmd for range r of family f.
Attempts(cmd, f, r) ==
  Cardinality({i \in Entries(cmd) : log[i].fam = f /\ log[i].arg = r})

Succeeded(cmd) == Cardinality({i \in Entries(cmd) : log[i].ok})

\* The status query of the cycle has returned: existing_rules is the state
\* read at the start of this cycle.
Fetched == Len(log) >= 1

StatusFailed == Fetched /\ log[1].cmd = "status" /\ ~log[1].ok

toAdd(f) == dict_get(desired, f) \ existing_rules[f]

toRemove(f) == existing_rules[f] \ dict_get(desired, f)

AddLoopOver == pc \in {"Removing", "Deleting", "Done"}

\* C1: within a cycle no allow command is issued after a delete lookup or a
\* delete command.
C1_AddsBeforeRemovals ==
  \A i, j \in 1..Len(log) :
     (i < j /\ log[i].cmd \in {"lookup", "delete"}) => log[j].cmd # "allow"

\* A cycle that added and removed, with a failed command among them.
C1_Witness ==
  /\ pc = "Done"
  /\ Entries("allow") # {}
  /\ Entries("delete") # {}
  /\ ~AllOk(log)

\* C2: for every family f of the desired map, an add for r is attempted
\* exactly once if r is in desired[f] and not in the state read at the start,
\* and never otherwise.
C2_AddsAreTheDifference ==
  Fetched =>
    /\ \A i \in Entries("allow") :
         /\ log[i].fam \in DOMAIN desired
         /\ log[i].arg \in toAdd(log[i].fam)
         /\ Attempts("allow", log[i].fam, log[i].arg) = 1
    /\ AddLoopOver =>
         \A f \in DOMAIN desired : \A r \in toAdd(f) : Attempts("allow", f, r) = 1

\* A cycle that added one range and left alone a desired range that was there.
C2_Witness ==
  /\ pc = "Done"
  /\ Entries("allow") # {}
  /\ \E f \in DOMAIN desired : desired[f] \cap existing_rules[f] # {}

\* C3: for every family f, a removal of r is attempted exactly once if r is in
\* the state read at the start and not in desired[f], and never otherwise.
C3_RemovalsAreTheDifference ==
  Fetched =>
    /\ \A i \in Entries("lookup") :
         /\ log[i].arg \in toRemove(log[i].fam)
         /\ Attempts("lookup", log[i].fam, log[i].arg) = 1
    /\ pc = "Done" =>
         \A f \in {"v4", "v6"} : \A r \in toRemove(f) : Attempts("lookup", f, r) = 1

\* A cycle that removed one range and kept an existing range that is desired.
C3_Witness ==
  /\ pc = "Done"
  /\ Entries("lookup") # {}
  /\ \E f \in DOMAIN desired : desired[f] \cap existing_rules[f] # {}
  /\ Entries("allow") = {}

\* C4: a cycle that follows a cycle in which every command succeeded, and
\* whose own status query succeeds, computes empty add and remove sets and
\* issues no allow and no delete command.
C4_Idempotent ==
  (cycle >= 2 /\ prevClean /\ Fetched /\ log[1].ok) =>
    /\ Entries("allow") = {}
    /\ Entries("delete") = {}
    /\ \A f \in {"v4", "v6"} : toAdd(f) = {} /\ toRemove(f) = {}

\* C5: after a cycle in which every command succeeded, the state derived
\* again from the table is the desired state, family by family.
C5_Converged ==
  (pc = "Done" /\ AllOk(log)) =>
    \A f \in {"v4", "v6"} :
       get_existing_rules(TRUE, rules)[f] = dict_get(desired, f)

\* C6: whatever commands failed, at the end of the cycle an add has been
\* attempted for every range of the add set and a removal for every range of
\* the remove set.
C6_EveryRangeAttempted ==
  pc = "Done" =>
    /\ Cardinality(Entries("allow"))
         = Cardinality(toAdd("v4")) + Cardinality(toAdd("v6"))
    /\ Cardinality(Entries("lookup"))
         = Cardinality(toRemove("v4")) + Cardinality(toRemove("v6"))

\* A cycle in which an add failed and a later add was attempted, and a
\* removal failed and a later removal was attempted.
C6_Witness ==
  /\ pc = "Done"
  /\ \E i, j \in Entries("allow") : i < j /\ ~log[i].ok
  /\ \E i, j \in Entries("lookup") :
       /\ i < j
       /\ ~log[i].ok \/ (i + 1 \in Entries("delete") /\ ~log[i + 1].ok)

\* The positions of a cycle, in the order the cycle passes through them.
Rank(p) ==
  CASE p = "Idle" -> 0
    [] p = "FetchingCurrent" -> 1
    [] p = "Adding" -> 2
    [] p = "Removing" -> 3
    [] p = "Deleting" -> 3
    [] p = "Done" -> 4
    [] OTHER -> 5

\* What the loops of the cycle still have to visit.
Remaining == Cardinality(addTodo) + Cardinality(remTodo)

\* A step that starts a cycle, or brings the cycle nearer to its end: to a
\* later position, or at the same position to fewer ranges left, or back from
\* the delete command to the remove loop.
Advances ==
  \/ pc \in {"Idle", "Done"} /\ pc' = "FetchingCurrent"
  \/ Rank(pc') = Rank(pc) + 1
  \/ Rank(pc') = Rank(pc) /\ Remaining' < Remaining
  \/ pc = "Deleting" /\ pc' = "Removing" /\ Remaining' = Remaining

\* C7: a cycle goes from FetchingCurrent through Adding and Removing to Done
\* whatever commands fail: there is no failure position, every step brings
\* the cycle nearer to Done, and until Done a step is always possible.
C7_CycleReachesDone ==
  /\ [][Rank(pc') <= 4 /\ Advances]_vars
  /\ [](pc \notin {"Idle", "Done"} => ENABLED CycleStep)

\* A cycle that reached Done after an allow, a lookup and a delete had failed.
C7_Witness ==
  /\ pc = "Done"
  /\ \A c \in {"allow", "lookup", "delete"} : \E i \in Entries(c) : ~log[i].ok

\* C8: the pair returned by sync_rules is (allow commands that succeeded,
\* delete commands that succeeded); a failed command is not counted, so
\* neither count exceeds the size of its set.
C8_ResultCountsSuccesses ==
  pc = "Done" =>
    /\ result = <<Succeeded("allow"), Succeeded("delete")>>
    /\ result[1] <= Cardinality(toAdd("v4")) + Cardinality(toAdd("v6"))
    /\ result[2] <= Cardinality(toRemove("v4")) + Cardinality(toRemove("v6"))

\* A cycle that returned with an add and a removal counted and an add and a
\* delete that failed.
C8_Witness ==
  /\ pc = "Done"
  /\ result[1] >= 1
  /\ result[2] >= 1
  /\ \E i \in Entries("allow") : ~log[i].ok
  /\ \E i \in Entries("delete") : ~log[i].ok

\* C9: when the status query fails, the state read is empty in both families
\* and the cycle goes on to the add loop; it does not end in a failure.
C9_StatusFailureReadsEmpty ==
  StatusFailed =>
    /\ existing_rules = EmptyRules
    /\ pc \in {"Adding", "Removing", "Done"}

\* A second cycle whose status query failed, after a cycle that had read
\* rules, has gone on to add.
C9_Witness ==
  /\ StatusFailed
  /\ cycle = 2
  /\ Len(rules) > 0
  /\ Entries("allow") # {}

\* C10: in a cycle whose status query failed no lookup and no delete command
\* is issued, and at its end an add has been attempted for every range of the
\* desired state.
C10_NoDeleteAfterFailedStatus ==
  StatusFailed =>
    /\ Entries("lookup") = {}
    /\ Entries("delete") = {}
    /\ pc = "Done" =>
         \A f \in DOMAIN desired : \A r \in desired[f] :
            \E i \in Entries("allow") : log[i].fam = f /\ log[i].arg = r

\* A cycle whose status query failed while the table held a rule of this
\* tool that is not desired, and that added a range already in the table.
C10_Witness ==
  /\ StatusFailed
  /\ pc = "Done"
  /\ \E i \in 1..Len(rules) :
       /\ rules[i].tag = comment
       /\ rules[i].pp = proto \o "/" \o port
       /\ rules[i].src \notin UNION {desired[f] : f \in DOMAIN desired}
  /\ \E i \in Entries("allow") : \E k \in 1..Len(rules) :
       rules[k].src = log[i].arg /\ log[i].ok

\* The lookups of the cycle whose status query succeeded and that found no
\* rule number: no delete command follows them.
NotFound ==
  {i \in Entries("lookup") :
     /\ log[i].ok
     /\ IF i < Len(log) THEN log[i + 1].cmd # "delete" ELSE pc # "Deleting"}

\* A pass of the remove loop whose lookup succeeds and finds no rule number
\* for the range in the table as it is now.
NotFoundStep ==
  /\ pc = "Removing"
  /\ Len(log') = Len(log) + 1
  /\ log'[Len(log')].cmd = "lookup"
  /\ log'[Len(log')].ok
  /\ find_rule_number(status_numbered(rules), log'[Len(log')].arg) = 0

\* C11 as stated: a removal whose lookup finds no rule number is a removal
\* that succeeded, so the cycle returns it among the removed.
C11_NotFoundIsSuccess ==
  pc = "Done" => result[2] = Succeeded("delete") + Cardinality(NotFound)

\* C11, amended: a removal whose lookup finds no rule number fails without
\* a delete command: it is not counted, nothing in the table changes, and the
\* remove loop goes on with the ranges that are left.
C11_NotFoundReturnsFalse ==
  [][NotFoundStep =>
       /\ removed' = removed
       /\ rules' = rules
       /\ pc' = "Removing"
       /\ Remaining' = Remaining - 1]_vars

\* A cycle in which another actor had removed a rule after the status query:
\* the lookup for its range found nothing, and a later removal was attempted.
C11_Witness ==
  /\ pc = "Done"
  /\ \E i \in NotFound : \E j \in Entries("lookup") :
       /\ i < j
       /\ \A k \in 1..Len(rules) : rules[k].src # log[i].arg
  /\ result[2] = 1

\* No line of the status output of the table holds both the range and the
\* comment.
NoLineMatches(ip_range) ==
  \A i \in 1..Len(rules) :
     LET line == status_line(i, rules[i])
     IN ~(Contains(ip_range, line) /\ Contains(comment, line))

\* A pass of the remove loop in which delete_rule is called and its status
\* query fails, or succeeds with no line matching the range and the comment.
EarlyReturnStep ==
  /\ pc = "Removing"
  /\ Len(log') = Len(log) + 1
  /\ log'[Len(log')].cmd = "lookup"
  /\ ~log'[Len(log')].ok \/ NoLineMatches(log'[Len(log')].arg)

\* The lookups of the cycle that were followed by a delete command.
Followed == {i \in Entries("lookup") : i + 1 \in Entries("delete")}

\* C12: when the status query of delete_rule fails, or no status line holds
\* the range and the comment, no delete command is issued and the call
\* returns False: the removed count stays, and the count the cycle returns
\* is at most the number of lookups that were followed by a delete command.
C12_EarlyReturnNotCounted ==
  /\ [][EarlyReturnStep =>
          /\ pc' # "Deleting"
          /\ rule_number' = 0
          /\ removed' = removed
          /\ rules' = rules]_vars
  /\ [](pc = "Done" => result[2] <= Cardinality(Followed))

\* A cycle with a removal whose status query failed and a removal whose
\* lookup found no line, the rule having been deleted by another actor.
C12_Witness ==
  /\ pc = "Done"
  /\ \E i \in Entries("lookup") : ~log[i].ok
  /\ \E i \in NotFound : \A k \in 1..Len(rules) : rules[k].src # log[i].arg
  /\ Followed = {}
  /\ result[2] = 0

\* C13: the rule number given to a delete command is the number of a rule
\* whose source is exactly the range being removed and whose comment is
\* exactly the comment of this tool.
C13_DeleteTargetsExactRule ==
  pc = "Deleting" =>
    /\ rule_number \in 1..Len(rules)
    /\ rules[rule_number].src = target
    /\ rules[rule_number].tag = comment

\* The rules of the table whose status line does not hold the comment.
Untagged ==
  {i \in 1..Len(rules) : ~Contains(comment, status_line(i, rules[i]))}

\* The status query of the cycle succeeded and no command has followed it:
\* the table is the one the query read.
JustFetched == Len(log) = 1 /\ log[1].cmd = "status" /\ log[1].ok

\* C14: a rule whose status line lacks the comment is not in the state read
\* from the table: the state is what the other rules alone give, so the
\* range of such a rule is in it only if another rule holds the same range;
\* and the remove loop visits ranges of that state only.
C14_UntaggedNeverCurrent ==
  /\ JustFetched =>
       LET tagged == SelectSeq(rules, LAMBDA r : Contains(comment, status_line(1, r)))
       IN /\ existing_rules = get_existing_rules(TRUE, tagged)
          /\ \A i \in Untagged :
               \/ rules[i].src \notin existing_rules["v4"] \cup existing_rules["v6"]
               \/ \E j \in 1..Len(rules) \ Untagged : rules[j].src = rules[i].src
          /\ remTodo \subseteq Items(get_existing_rules(TRUE, tagged))
  /\ \A i \in Entries("lookup") : log[i].arg \in existing_rules[log[i].fam]

\* A cycle read a table that holds a rule of another owner for the
\* configured port, whose range is not desired, and a rule of this tool; it
\* has come to its end with a removal attempted.
C14_Witness ==
  /\ pc = "Done"
  /\ cycle = 1
  /\ log[1].ok
  /\ Entries("lookup") # {}
  /\ \E i \in Untagged :
       /\ rules[i].pp = proto \o "/" \o port
       /\ rules[i].src \notin UNION {desired[f] : f \in DOMAIN desired}
       /\ rules[i].src \notin existing_rules["v4"]

\* The rule a line of a status text shows; a rule with an empty source for a
\* garbage line.
RuleOf(line) ==
  LET shown == {r \in ParserRules : \E i \in 1..Len(output) : status_line(i, r) = line}
  IN IF shown = {} THEN Rule("", "", "") ELSE CHOOSE r \in shown : TRUE

\* get_existing_rules has returned from a status command that succeeded.
Parsed == pc = "Returned" /\ log[1].cmd = "status" /\ log[1].ok

\* get_ip_ranges has returned.
Validated == pc = "Returned" /\ log[1].cmd = "get"

\* C15: a line whose protocol/port is not exactly the configured pair gives
\* nothing to the state read, also when it holds the comment: every range of
\* the state is the source of a line for exactly the configured pair.
C15_ExactPortOnly ==
  Parsed =>
    \A r \in existing_rules["v4"] \cup existing_rules["v6"] :
       \E i \in 1..Len(output) :
          /\ RuleOf(output[i]).src = r
          /\ RuleOf(output[i]).pp = proto \o "/" \o port

\* C16: the rule a delete command of the cycle is about to remove is a rule
\* for the configured protocol and port.
C16_DeleteOnlyConfiguredPort ==
  (pc = "Deleting" /\ rule_number \in 1..Len(rules)) =>
    rules[rule_number].pp = proto \o "/" \o port

\* The IP version of a family key.
VersionOf(f) == IF f = "v6" THEN 6 ELSE 4

\* The texts that denote a network of family f, host bits set or not.
NetworksOf(f) ==
  {t \in DOMAIN NetworkTexts : NetworkTexts[t].version = VersionOf(f)}

\* The list of the response that get_ip_ranges validates for family f.
ListKey(f) == IF f = "v6" THEN "ipv6_cidrs" ELSE "ipv4_cidrs"

\* C17: whatever the inputs, every member of a v4 set of the desired state
\* and of the state read denotes an IPv4 network and every member of a v6
\* set an IPv6 network.
C17_FamilyIsolation ==
  pc = "Returned" =>
    /\ \A f \in DOMAIN desired : desired[f] \subseteq NetworksOf(f)
    /\ \A f \in {"v4", "v6"} : existing_rules[f] \subseteq NetworksOf(f)

\* get_ip_ranges has returned both families from a response whose v4 list
\* held an IPv6 range and a text that is no range, and whose v6 list held an
\* IPv4 range.
C17_Witness ==
  /\ Validated
  /\ DOMAIN desired = {"v4", "v6"}
  /\ {"2001:db8::/32", "not-an-ip", "10.0.0.0/8"} \subseteq data["ipv4_cidrs"]
  /\ {"2001:db8::/32", "110.0.0.0/8"} \subseteq data["ipv6_cidrs"]
  /\ desired["v4"] # {}
  /\ desired["v6"] # {}

\* C18: for every requested family whose list is in the response, the set
\* returned is exactly the candidates of the list that denote a network of
\* the family; the others are dropped, and a list of bad candidates only
\* gives the empty set.
C18_ValidatedExactly ==
  Validated =>
    \A f \in arg_ip_types :
       ListKey(f) \in DOMAIN data =>
         /\ f \in DOMAIN desired
         /\ desired[f] = data[ListKey(f)] \cap NetworksOf(f)

\* get_ip_ranges has returned {"2001:db8::/32"} for a v6 list with a text
\* that is no range and an IPv4 range in it, and the empty set for a v4 list
\* of bad candidates only.
C18_Witness ==
  /\ Validated
  /\ DOMAIN desired = {"v4", "v6"}
  /\ data["ipv6_cidrs"] = {"2001:db8::/32", "not-an-ip", "10.0.0.0/8"}
  /\ desired["v6"] = {"2001:db8::/32"}
  /\ data["ipv4_cidrs"] = {"not-an-ip", "2001:db8::/32"}
  /\ desired["v4"] = {}

\* C19: every range of the desired state is the normalized text of its
\* network, so two texts of one network are one member.
C19_DesiredNormalized ==
  Validated =>
    \A f \in DOMAIN desired : \A r \in desired[f] :
       /\ r \in DOMAIN NetworkTexts
       /\ NetworkTexts[r].network = r

\* The ranges a status text holds by its lines that show a rule with the
\* comment, for exactly the configured protocol and port, from a network of
\* family f.
WellFormed(f) ==
  {RuleOf(output[i]).src : i \in
     {j \in 1..Len(output) :
        /\ RuleOf(output[j]).tag = comment
        /\ RuleOf(output[j]).pp = proto \o "/" \o port
        /\ ip_network(RuleOf(output[j]).src, TRUE).version = VersionOf(f)}}

\* C20: from a status text of well-formed and garbage lines the parser
\* returns exactly the ranges of the well-formed lines with the comment and
\* the configured protocol and port.
C20_ParserExact ==
  Parsed => \A f \in {"v4", "v6"} : existing_rules[f] = WellFormed(f)

\* The last entry of the service log.
LastS == slog[Len(slog)]

\* A step in which sync() raises: the request of the ranges fails, or a ufw
\* command finds no binary.
RaisedStep ==
  /\ Len(slog') > 0
  /\ slog' # slog
  /\ \/ slog'[Len(slog')].cmd = "raise"
     \/ slog'[Len(slog')].cmd = "get" /\ ~slog'[Len(slog')].ok

Sleeping == spc \in {"sleep_interval", "sleep_backoff"}

\* C21: in the daemon a cycle that raises is followed by the sleep of 60
\* seconds, with the daemon still running, and a cycle that completes by the
\* sleep of the configured interval; a sleep that ends is followed by the
\* next cycle, and a cycle starts only from a sleep or at the start, never
\* while a cycle is running.
C21_DaemonRetriesAfterBackoff ==
  /\ [][(mode = "daemon" /\ RaisedStep) =>
          /\ spc' = "sleep_backoff"
          /\ sleep_secs' = 60
          /\ outcome' = "running"]_vars
  /\ [][(mode = "daemon" /\ spc = "sync_rules" /\ pc = "Done" /\ pc' = "Idle") =>
          /\ spc' = "sleep_interval"
          /\ sleep_secs' = 86400
          /\ outcome' = "running"]_vars
  /\ [][(Sleeping /\ spc' # spc /\ outcome' = "running") => spc' = "sync"]_vars
  /\ [][(spc' = "sync" /\ spc # "sync") => (Sleeping \/ spc = "construct")]_vars
  /\ [](Sleeping <=> sleep_secs # 0)

\* The daemon sleeps the backoff after a cycle that raised because the tool
\* had gone while it slept the interval after a cycle that completed.
C21_Witness ==
  /\ mode = "daemon"
  /\ spc = "sleep_backoff"
  /\ sleep_secs = 60
  /\ cycle = 1
  /\ LastS.cmd = "raise"

\* The daemon is interrupted in this step.
Interrupted == mode = "daemon" /\ spc # "exited" /\ spc' = "exited" /\ slog' = slog

\* C22: an interrupt that arrives while the daemon sleeps, in the interval
\* sleep or in the backoff sleep, makes run_daemon return without raising,
\* and no cycle starts after it.
C22_InterruptStopsCleanly ==
  /\ [][(Interrupted /\ Sleeping) => outcome' = "return 0"]_vars
  /\ [][spc = "exited" => (spc' = "exited" /\ cycle' = cycle /\ slog' = slog)]_vars

\* The step in which the daemon finds the firewall tool missing: the
\* `which ufw` of the construction fails, or a ufw command of a cycle raises
\* FileNotFoundError.
ToolMissingStep ==
  /\ mode = "daemon"
  /\ slog' # slog
  /\ Len(slog') > 0
  /\ slog'[Len(slog')] \in {Cmd("which", "", "ufw", FALSE),
                            Cmd("raise", "", "FileNotFoundError", FALSE)}

\* C23: in daemon mode a missing firewall tool, found at start-up or in a
\* later cycle, is followed by the backoff sleep and a retry, and the process
\* does not exit.
C23_MissingToolRetried ==
  [][ToolMissingStep =>
       /\ spc' = "sleep_backoff"
       /\ sleep_secs' = backoff
       /\ outcome' = "running"]_vars

\* set_policy or ensure_enabled has returned False in this call of sync().
PrerequisiteFailed ==
  \E i \in 1..Len(slog) :
     /\ slog[i].cmd \in {"set_policy returns", "ensure_enabled returns"}
     /\ ~slog[i].ok

\* The step in which the call named by cmd returns False.
ReturnsFalseStep(cmd) ==
  /\ slog' # slog
  /\ Len(slog') > 0
  /\ slog'[Len(slog')].cmd = cmd
  /\ ~slog'[Len(slog')].ok

\* C24: when set_policy or ensure_enabled fails, sync() goes on to its next
\* step without raising, and the cycle that follows queries the status and
\* attempts every add of its add set and every removal of its remove set.
C24_PrerequisiteFailureDoesNotStop ==
  /\ [][ReturnsFalseStep("set_policy returns") =>
          (spc' = "ensure_enabled" /\ outcome' = outcome)]_vars
  /\ [][ReturnsFalseStep("ensure_enabled returns") =>
          (spc' = "sync_rules" /\ outcome' = outcome)]_vars
  /\ []((PrerequisiteFailed /\ spc = "sync_rules" /\ pc = "Done") =>
          /\ log[1].cmd = "status"
          /\ Cardinality(Entries("allow"))
               = Cardinality(toAdd("v4")) + Cardinality(toAdd("v6"))
          /\ Cardinality(Entries("lookup"))
               = Cardinality(toRemove("v4")) + Cardinality(toRemove("v6")))

\* The default policy command and the enable command both failed, and the
\* cycle added and removed.
C24_Witness ==
  /\ spc = "sync_rules"
  /\ pc = "Done"
  /\ \E i \in 1..Len(slog) : slog[i].cmd = "default" /\ ~slog[i].ok
  /\ \E i \in 1..Len(slog) : slog[i].cmd = "enable" /\ ~slog[i].ok
  /\ Entries("allow") # {}
  /\ Entries("delete") # {}

\* The step in which the status query of a cycle returns.
FetchStep == pc = "FetchingCurrent" /\ pc' # pc

\* C25: every cycle queries the status before its first add or removal, the
\* state it works from is what that query read from the table as it is then,
\* whatever was read before, and its adds and removals are taken from that
\* state alone.
C25_CurrentStateRederived ==
  /\ [][FetchStep =>
          /\ log' = <<Cmd("status", "", "", log'[1].ok)>>
          /\ existing_rules' = parse_output(log'[1].ok, status_numbered(rules))
          /\ addTodo' = Items(desired)
          /\ remTodo' = Items(existing_rules')]_vars
  /\ [][~FetchStep => existing_rules' = existing_rules]_vars
  /\ [][cycle' # cycle => (cycle' = cycle + 1 /\ log' = <<>>)]_vars
  /\ [](\A i \in 1..Len(log) :
          /\ log[i].cmd = "status" <=> i = 1
          /\ log[i].cmd = "allow" =>
               /\ log[i].arg \in dict_get(desired, log[i].fam)
               /\ log[i].arg \notin existing_rules[log[i].fam]
          /\ log[i].cmd = "lookup" =>
               /\ log[i].arg \in existing_rules[log[i].fam]
               /\ log[i].arg \notin dict_get(desired, log[i].fam))

\* The first cycle ran with every command succeeding; the second cycle has
\* read a table that holds one rule, for a range that is not desired, and
\* works from it.
C25_Witness ==
  /\ cycle = 2
  /\ prevClean
  /\ Len(rules) = 1
  /\ pc = "Done"
  /\ \E f \in {"v4", "v6"} :
       /\ log[1] = Cmd("status", "", "", TRUE)
       /\ \E r \in existing_rules[f] :
            /\ r \notin dict_get(desired, f)
            /\ rules[1].src = r
            /\ Attempts("lookup", f, r) = 1

\* What the step has appended to the log of the service.
NewS == SubSeq(slog', Len(slog) + 1, Len(slog'))

\* The step in which the call made at position p appends to the log without
\* finding the ufw binary gone.
CallStep(p) ==
  /\ spc = p
  /\ slog' # slog
  /\ slog'[Len(slog')].cmd # "raise"

\* C26: set_policy with a policy other than allow, deny and reject returns
\* False and issues no command; with one of the three, on a host with ufw, it
\* issues the one command `default <policy> incoming` and returns the
\* success of that command.
C26_SetPolicyValidates ==
  /\ [][CallStep("set_policy") =>
          IF default_policy \in {"allow", "deny", "reject"}
          THEN \E success \in BOOLEAN :
                 /\ NewS = <<Cmd("default", "", default_policy, success),
                             Cmd("set_policy returns", "", default_policy, success)>>
                 /\ incoming' = IF success THEN default_policy ELSE incoming
          ELSE /\ NewS = <<Cmd("set_policy returns", "", default_policy, FALSE)>>
               /\ incoming' = incoming]_vars
  /\ [](Cardinality({i \in 1..Len(slog) : slog[i].cmd = "default"}) <= 1)

\* set_policy("deny") has issued its command, which failed, and has returned
\* False.
C26_Witness ==
  /\ Len(slog) = 3
  /\ slog[2] = Cmd("default", "", "deny", FALSE)
  /\ slog[3] = Cmd("set_policy returns", "", "deny", FALSE)
  /\ incoming = "allow"

\* The places of the log of the service that hold cmd.
EntriesS(cmd) == {i \in 1..Len(slog) : slog[i].cmd = cmd}

\* C27: ensure_enabled returns True without an enable command when the
\* output of the status query holds "Status: active"; otherwise it issues
\* one `--force enable` and returns the success of that command.
C27_EnableOnlyWhenInactive ==
  /\ [][CallStep("ensure_enabled") =>
          LET q == slog'[Len(slog) + 1]
          IN /\ q.cmd = "status verbose"
             /\ IF Contains("Status: active", q.arg)
                THEN /\ NewS = <<q, Cmd("ensure_enabled returns", "", "", TRUE)>>
                     /\ spc' = "sync_rules"
                ELSE /\ NewS = <<q>>
                     /\ spc' = "enable"]_vars
  /\ [][CallStep("enable") =>
          \E success \in BOOLEAN :
             /\ NewS = <<Cmd("enable", "", "--force", success),
                         Cmd("ensure_enabled returns", "", "", success)>>
             /\ spc' = "sync_rules"]_vars
  /\ [](/\ Cardinality(EntriesS("enable")) <= 1
        /\ \A i \in EntriesS("enable") :
             /\ i > 1
             /\ slog[i - 1].cmd = "status verbose"
             /\ ~Contains("Status: active", slog[i - 1].arg))

\* The status did not report ufw active, the forced enable failed and
\* ensure_enabled has returned False.
C27_Witness ==
  /\ EntriesS("enable") # {}
  /\ LastS = Cmd("ensure_enabled returns", "", "", FALSE)
  /\ \E i \in EntriesS("status verbose") : slog[i].arg = "Status: inactive"
  /\ ~active

\* C28: handle_sync returns 0 when sync() has returned, whatever adds and
\* removals of the cycle failed, and returns 1 when sync() has raised.
C28_ExitCode ==
  /\ [][(mode = "sync" /\ spc = "sync_rules" /\ pc = "Done" /\ pc' = "Idle") =>
          (spc' = "exited" /\ outcome' = "return 0")]_vars
  /\ [][(mode = "sync" /\ RaisedStep) =>
          (spc' = "exited" /\ outcome' = "return 1")]_vars
  /\ []((mode = "sync" /\ outcome = "return 0") =>
          (cycle = 1 /\ Len(log) >= 1 /\ result = <<added, removed>>))
  /\ []((mode = "sync" /\ outcome = "return 1") =>
          (LastS.cmd = "raise" \/ (LastS.cmd = "get" /\ ~LastS.ok)))

\* handle_sync has returned 0 after a cycle in which an add and a delete
\* failed.
C28_Witness ==
  /\ mode = "sync"
  /\ spc = "exited"
  /\ outcome = "return 0"
  /\ \E i \in Entries("allow") : ~log[i].ok
  /\ \E i \in Entries("delete") : ~log[i].ok

\* The step in which a call of get_ip_ranges ends.
GetStep == pc = "get_ip_ranges" /\ pc' # pc

\* C29: on an upstream failure get_ip_ranges returns no map: a response with
\* success false makes it raise RuntimeError, a failed request makes it
\* raise the request error, and a map is returned only for a response with
\* success true.
C29_NoMapOnUpstreamFailure ==
  /\ [][GetStep =>
          LET kind == log'[Len(log')].arg
          IN /\ kind = "success_false" =>
                  /\ pc' = "Raised"
                  /\ outcome' = "raise RuntimeError"
                  /\ desired' = desired
             /\ kind = "http_error" =>
                  /\ pc' = "Raised"
                  /\ outcome' = "raise RequestException"
                  /\ desired' = desired
             /\ kind = "ok" => (pc' = "Returned" /\ outcome' = "return")]_vars
  /\ [](Validated => log[1] = Cmd("get", "", "ok", TRUE))

\* get_ip_ranges has raised RuntimeError on a response with success false
\* that carried a result with valid ranges of both families.
C29_Witness ==
  /\ pc = "Raised"
  /\ outcome = "raise RuntimeError"
  /\ log = <<Cmd("get", "", "success_false", FALSE)>>
  /\ arg_ip_types = {"v4", "v6"}
  /\ DOMAIN data = {"ipv4_cidrs", "ipv6_cidrs"}
  /\ "10.0.0.0/8" \in data["ipv4_cidrs"]
  /\ "2001:db8::/32" \in data["ipv6_cidrs"]
  /\ desired = <<>>

\* C30: the keys of the map get_ip_ranges returns are among the requested
\* families: a family that was not requested is no key, whatever the
\* response holds for it, and a requested family whose list is in the
\* response is a key, also when nothing of the list is valid.
C30_KeysAreRequested ==
  Validated =>
    /\ DOMAIN desired \subseteq arg_ip_types
    /\ DOMAIN desired
         = {f \in arg_ip_types : ListKey(f) \in DOMAIN data}
    /\ \A f \in DOMAIN desired : desired[f] \subseteq data[ListKey(f)]

\* Only v4 was requested; the response held a valid IPv6 range in its v6
\* list and only bad candidates in its v4 list: the map returned has the key
\* v4 alone, with the empty set.
C30_Witness ==
  /\ Validated
  /\ arg_ip_types = {"v4"}
  /\ DOMAIN data = {"ipv4_cidrs", "ipv6_cidrs"}
  /\ "2001:db8::/32" \in data["ipv6_cidrs"]
  /\ data["ipv4_cidrs"] = {"not-an-ip"}
  /\ DOMAIN desired = {"v4"}
  /\ desired["v4"] = {}

\* sync() has built its result.
Reported == sync_result.status = "success"

\* The ranges get_ip_ranges validated for family f in this call of sync().
ValidatedSet(f) ==
  IF f \in arg_ip_types /\ ListKey(f) \in DOMAIN data
  THEN data[ListKey(f)] \cap NetworksOf(f)
  ELSE {}

\* C31: the result of sync() holds, for each family, the size of the
\* validated desired set, 0 for a family that is no key of the desired map,
\* and as added and removed the pair sync_rules returned for the cycle.
C31_ResultReports ==
  /\ [][(spc = "sync_rules" /\ pc = "Done" /\ pc' = "Idle") =>
          /\ Reported'
          /\ sync_result'.rules = [added |-> result[1], removed |-> result[2]]
          /\ result = <<added, removed>>]_vars
  /\ [](Reported =>
          /\ sync_result.ips = [v4 |-> Cardinality(ValidatedSet("v4")),
                                v6 |-> Cardinality(ValidatedSet("v6"))]
          /\ \A f \in {"v4", "v6"} :
               f \notin DOMAIN desired => sync_result.ips[f] = 0
          /\ sync_result.rules.added = Succeeded("allow")
          /\ sync_result.rules.removed = Succeeded("delete"))

\* sync() has reported one valid range of two received for v4, none for v6,
\* which was not requested, one rule added and one removed.
C31_Witness ==
  /\ Reported
  /\ arg_ip_types = {"v4"}
  /\ Cardinality(data["ipv4_cidrs"]) = 2
  /\ sync_result.ips = [v4 |-> 1, v6 |-> 0]
  /\ sync_result.rules = [added |-> 1, removed |-> 1]

\* The step in which a delete command is issued.
DeleteStep == pc = "Deleting" /\ pc' # pc

\* C32: every delete command comes directly after the status query of its
\* own delete_rule call, so after every earlier allow and delete of the
\* cycle, and its rule number is the number of a line that holds the range
\* and the comment in the table as those commands left it.
C32_IndexReadAfterMutations ==
  /\ [](\A i \in Entries("delete") :
          /\ i > 1
          /\ log[i - 1].cmd = "lookup"
          /\ log[i - 1].ok)
  /\ [][DeleteStep =>
          LET n == log'[Len(log')].arg
          IN /\ n = rule_number
             /\ log[Len(log)] = Cmd("lookup", log[Len(log)].fam, target, TRUE)
             /\ n \in 1..Len(rules)
             /\ Contains(target, status_numbered(rules)[n])
             /\ Contains(comment, status_numbered(rules)[n])
             /\ re_match_number(status_numbered(rules)[n]) = n]_vars
  /\ [][pc = "Removing" => (rule_number = 0 /\ target = "")]_vars

\* The second delete of a cycle: the first one succeeded and moved the rule
\* of the second up to number 1.
C32_Witness ==
  /\ Cardinality(Entries("delete")) = 2
  /\ AllOk(log)
  /\ \A i \in Entries("delete") : log[i].arg = 1
  /\ pc = "Done"

\* What the step has appended to the log of the cycle.
NewLog == SubSeq(log', Len(log) + 1, Len(log'))

\* C33: a call of add_rule issues the one allow command for its range; a
\* call of delete_rule issues one status query, then the delete command when
\* the query gave a rule number, and no delete command when the query failed
\* or gave none.
C33_OneCommandPerCall ==
  /\ [][(pc = "Adding" /\ addTodo' # addTodo) =>
          \E p \in addTodo \ addTodo' :
             IF p[2] \notin existing_rules[p[1]]
             THEN \E ok \in BOOLEAN : NewLog = <<Cmd("allow", p[1], p[2], ok)>>
             ELSE log' = log]_vars
  /\ [][(pc = "Removing" /\ remTodo' # remTodo) =>
          \E p \in remTodo \ remTodo' :
             IF p[2] \notin dict_get(desired, p[1])
             THEN /\ \E ok \in BOOLEAN : NewLog = <<Cmd("lookup", p[1], p[2], ok)>>
                  /\ pc' = "Deleting" <=> rule_number' # 0
                  /\ rule_number' # 0 => log'[Len(log')].ok
                  /\ pc' \in {"Deleting", "Removing"}
             ELSE log' = log /\ pc' = pc]_vars
  /\ [][DeleteStep =>
          /\ \E ok \in BOOLEAN : NewLog = <<Cmd("delete", "", rule_number, ok)>>
          /\ pc' = "Removing"]_vars
  /\ [](pc = "Deleting" =>
          /\ rule_number # 0
          /\ log[Len(log)].cmd = "lookup")
  /\ [](Cardinality(Entries("delete")) <= Cardinality(Entries("lookup")))

\* A cycle with an allow, a delete_rule call that ended after its query
\* without a delete, and a delete_rule call that issued its delete.
C33_Witness ==
  /\ pc = "Done"
  /\ Cardinality(Entries("allow")) = 1
  /\ Cardinality(Entries("lookup")) = 2
  /\ Cardinality(Entries("delete")) = 1

\* C34: with other actors changing the table at any moment, also between
\* the status query and the delete command of one removal, a delete command
\* that removes a rule removes one that carries the comment of this tool.
C34_DeleteOnlyOwned ==
  [][(DeleteStep /\ rules' # rules) => rules[rule_number].tag = comment]_vars

\* The desired ranges, of both families.
DesiredRanges == dict_get(desired, "v4") \cup dict_get(desired, "v6")

\* The desired ranges that have a rule for the configured protocol and port
\* in table.
InstalledDesired(table) ==
  {r \in DesiredRanges :
     \E i \in 1..Len(table) :
        table[i].src = r /\ table[i].pp = proto \o "/" \o port}

\* C35: with no other actor, no delete command of a cycle removes a rule for
\* the configured protocol and port whose source is a desired range, so a
\* desired range that has its rule keeps it until the cycle is over.
C35_DesiredNeverDeleted ==
  /\ [][(DeleteStep /\ rules' # rules) =>
          ~ /\ rules[rule_number].pp = proto \o "/" \o port
            /\ rules[rule_number].src \in DesiredRanges]_vars
  /\ [][pc \notin {"Idle", "Done"} =>
          InstalledDesired(rules) \subseteq InstalledDesired(rules')]_vars

\* C36: for a family that is no key of the desired map, the cycle attempts
\* one removal for every range of the family in the state it read, and no
\* add.
C36_MissingFamilyIsEmpty ==
  \A f \in {"v4", "v6"} \ DOMAIN desired :
     /\ \A i \in Entries("allow") : log[i].fam # f
     /\ pc = "Done" =>
          \A r \in existing_rules[f] : Attempts("lookup", f, r) = 1

\* The desired map has the key v4 only; the cycle read a v6 range, looked
\* its rule up and deleted it, and added a v4 range.
C36_Witness ==
  /\ pc = "Done"
  /\ DOMAIN desired = {"v4"}
  /\ existing_rules["v6"] # {}
  /\ \E i \in Entries("lookup") :
       /\ log[i].fam = "v6"
       /\ i + 1 \in Entries("delete")
       /\ log[i + 1].ok
  /\ Entries("allow") # {}

\* The request for the desired ranges of this call of sync() has failed.
FetchFailed == Len(slog) >= 1 /\ slog[1].cmd = "get" /\ ~slog[1].ok

\* C37: a call of sync() whose request for the desired ranges fails issues
\* no firewall command: no default policy, status, enable, allow or delete;
\* the table, the policy and the state of the firewall stay as they were.
C37_FailedFetchIssuesNothing ==
  /\ [](FetchFailed =>
          /\ slog = <<slog[1]>>
          /\ log = <<>>
          /\ pc = "Idle"
          /\ spc \in {"sleep_backoff", "sync", "exited"})
  /\ [][FetchFailed' =>
          /\ rules' = rules
          /\ active' = active
          /\ incoming' = incoming
          /\ desired' = desired]_vars

\* The second call of sync() of a daemon failed at its request, after a
\* first one that had added a rule.
C37_Witness ==
  /\ FetchFailed
  /\ spc = "sleep_backoff"
  /\ cycle = 1
  /\ result = <<1, 0>>
  /\ Len(rules) = 1

\* No allow and no delete in the cycle, and at its end the state it read is
\* the desired state.
Quiet ==
  /\ Entries("allow") = {}
  /\ Entries("delete") = {}
  /\ pc = "Done" => \A f \in {"v4", "v6"} : existing_rules[f] = dict_get(desired, f)

\* C38: in a daemon that runs on with the desired state constant and no other
\* actor, if from some cycle on no command fails, then from some cycle on
\* every cycle reads the desired state and issues no allow and no delete.
C38_DaemonConverges == (<>[]AllOk(log)) => <>[]Quiet

\* C39: handle_sync ends by returning 0 or 1, whatever fails, the check for
\* the firewall tool at the construction of the service included; it raises
\* nothing to its caller.
C39_HandleSyncReturns ==
  mode = "sync" => outcome \in {"running", "return 0", "return 1"}

====
